---- MODULE Spec2Model ----
(***************************************************************************)
(* Model of espflash's serial monitor (src/espflash/src/cli/monitor/mod.rs) *)
(* monitor() is one sequential function; `pc` is its position.  Every call  *)
(* into the terminal, the serial port or the file system is an external     *)
(* call whose outcome (Ok / Err) is chosen nondeterministically.            *)
(***************************************************************************)
EXTENDS Integers, Sequences, FiniteSets, TLC

\* ----- bounds of the model -----
MaxReads == 2     \* serial.read calls explored per run
MaxKbd == 1       \* terminal events that can be queued at once
BuffLen == 2      \* length of the model's read buffer (1024 in the code)
MaxText == 4      \* longest text given to the strip function

\* ----- program state -----
VARIABLES
    pc,               \* position in monitor()
    interactive_mode, \* argument
    log_format,       \* argument: "Defmt" | "Serial"
    elf,              \* argument: TRUE iff a firmware image is given
    log_path,         \* argument: TRUE iff a log path is given
    raw_mode,         \* the local _raw_mode: "unset" | "Ok" | "Err"
    termRaw,          \* the terminal is in raw mode
    enableCalls,      \* calls of enable_raw_mode
    disableCalls,     \* calls of disable_raw_mode
    log_file,         \* the local log_file is Some
    buff,             \* the read buffer
    read_count,       \* the local read_count
    readKind,         \* outcome of the latest serial.read
    kbd,              \* terminal events waiting to be polled
    unread,           \* bytes the latest serial.read left in the port
    written,          \* argument of the latest serial.write_all
    reads,            \* calls of serial.read
    feeds,            \* calls of parser.feed
    polls,            \* calls of crossterm poll
    resets,           \* calls of reset_after_flash
    writes,           \* calls of serial.write_all
    flushes,          \* calls of serial.flush
    logAppends,       \* lines handed to the log file
    line,             \* the local `line` of the latest log append
    logTail,          \* bytes the latest log append put into the file
    line_str,         \* strip function: its argument
    stripped,         \* strip function: result of one application
    restripped,       \* strip function: result of a second application
    key_event,        \* key translator: its argument
    key_str,          \* key translator: its result
    partition_table,  \* erase_partitions: argument
    erase_parts,      \* erase_partitions: argument, labels
    erase_data_parts, \* erase_partitions: argument, data subtypes
    parts_to_erase,   \* erase_partitions: the local map offset -> partition
    erased,           \* erase_partitions: offsets given to erase_region
    erase_result,     \* erase_partitions: "none" | "Ok" | "Err"
    chip_rev,         \* parse_chip_rev: its argument
    rev_result,       \* parse_chip_rev: its result
    fpc,              \* position of the function under study
    result,           \* "none" | "Ok" | "Err" | "Panic"
    last              \* label of the last statement executed

vars == <<pc, interactive_mode, log_format, elf, log_path, raw_mode, termRaw,
          enableCalls, disableCalls, log_file, buff, read_count, readKind, kbd,
          reads, feeds, polls, resets, writes, flushes, logAppends, line,
          logTail, unread, written, line_str, stripped, restripped,
          key_event, key_str, partition_table, erase_parts, erase_data_parts,
          parts_to_erase, erased, erase_result, chip_rev, rev_result, fpc,
          result, last>>

args == <<interactive_mode, log_format, elf, log_path>>
term == <<raw_mode, termRaw, enableCalls, disableCalls>>
rd == <<read_count, readKind>>
logf == <<log_file, line, logTail>>
\* state of the pure functions, untouched by monitor()
stripVars == <<line_str, stripped, restripped>>
keyVars == <<key_event, key_str>>
eraseVars == <<partition_table, erase_parts, erase_data_parts,
               parts_to_erase, erased, erase_result>>
revVars == <<chip_rev, rev_result>>
pure == <<stripVars, keyVars, eraseVars, revVars, fpc>>
\* the serial port as the loop sees it
io == <<unread, written>>
counters == <<reads, feeds, polls, resets, writes, flushes, logAppends>>

\* ----- data -----
LogFormat == {"Defmt", "Serial"}

\* bytes the device can send: line feed, 'A', and 0xFF (never valid in
\* UTF-8); 0 is the byte the buffer is initialised with
Byte == {10, 65, 255}

KeyChar(c) == [kind |-> "Char", ch |-> c]
KeyNamed(k) == [kind |-> k, ch |-> 0]
KeyEvent(code, ctrl) == [isKey |-> TRUE, code |-> code, ctrl |-> ctrl]
OtherEvent == [isKey |-> FALSE, code |-> KeyNamed("Null"), ctrl |-> FALSE]

\* terminal events delivered to the loop
LoopEvents ==
    { KeyEvent(KeyChar(99), TRUE),      \* Control+C
      KeyEvent(KeyChar(114), TRUE),     \* Control+R
      KeyEvent(KeyChar(99), FALSE),     \* plain 'c'
      KeyEvent(KeyNamed("Up"), FALSE),  \* arrow up
      KeyEvent(KeyNamed("F"), FALSE),   \* a function key
      OtherEvent }                      \* resize, mouse, ...

\* char::encode_utf8
encode_utf8(ch) ==
    IF ch < 128 THEN <<ch>>
    ELSE IF ch < 2048 THEN <<192 + (ch \div 64), 128 + (ch % 64)>>
    ELSE IF ch < 65536 THEN
        <<224 + (ch \div 4096), 128 + ((ch \div 64) % 64), 128 + (ch % 64)>>
    ELSE <<240 + (ch \div 262144), 128 + ((ch \div 4096) % 64),
           128 + ((ch \div 64) % 64), 128 + (ch % 64)>>

is_ascii_lowercase_Alphabetic(ch) ==
    (ch >= 97 /\ ch <= 122) \/ (ch >= 65 /\ ch <= 90)

is_ascii_lowercase_Exclusive(ch) == ch >= 97 /\ ch < 122

\* char::is_ascii_lowercase
is_ascii_lowercase(ch) == ch >= 97 /\ ch <= 122

None == <<"None">>
Some(bytes) == <<"Some", bytes>>

handle_key_event_HomeEndSwapped(key) ==
    LET k == key.code.kind
        ch == key.code.ch
    IN  CASE k = "Backspace" -> Some(<<8>>)
          [] k = "Enter" -> Some(<<13>>)
          [] k = "Left" -> Some(<<27, 91, 68>>)
          [] k = "Right" -> Some(<<27, 91, 67>>)
          [] k = "Home" -> Some(<<27, 91, 70>>)
          [] k = "End" -> Some(<<27, 91, 72>>)
          [] k = "Up" -> Some(<<27, 91, 65>>)
          [] k = "Down" -> Some(<<27, 91, 66>>)
          [] k = "Tab" -> Some(<<9>>)
          [] k = "Delete" -> Some(<<27, 91, 51, 126>>)
          [] k = "Insert" -> Some(<<27, 91, 50, 126>>)
          [] k = "Esc" -> Some(<<27>>)
          [] k = "Char" ->
                IF key.ctrl
                THEN IF is_ascii_lowercase(ch) \/ ch = 32
                     THEN Some(<<(ch % 256) % 32>>)
                     ELSE IF ch >= 52 /\ ch <= 55
                          THEN Some(<<(((ch % 256) + 8) % 256) % 32>>)
                          ELSE Some(encode_utf8(ch))
                ELSE Some(encode_utf8(ch))
          [] OTHER -> None

\* handle_key_event: key event -> Option<Vec<u8>>
handle_key_event(key) ==
    LET k == key.code.kind
        ch == key.code.ch
    IN  CASE k = "Backspace" -> Some(<<8>>)
          [] k = "Enter" -> Some(<<13>>)
          [] k = "Left" -> Some(<<27, 91, 68>>)
          [] k = "Right" -> Some(<<27, 91, 67>>)
          [] k = "Home" -> Some(<<27, 91, 72>>)
          [] k = "End" -> Some(<<27, 91, 70>>)
          [] k = "Up" -> Some(<<27, 91, 65>>)
          [] k = "Down" -> Some(<<27, 91, 66>>)
          [] k = "Tab" -> Some(<<9>>)
          [] k = "Delete" -> Some(<<27, 91, 51, 126>>)
          [] k = "Insert" -> Some(<<27, 91, 50, 126>>)
          [] k = "Esc" -> Some(<<27>>)
          [] k = "Char" ->
                IF key.ctrl
                THEN IF is_ascii_lowercase(ch) \/ ch = 32
                     THEN Some(<<(ch % 256) % 32>>)
                     ELSE IF ch >= 52 /\ ch <= 55
                          THEN Some(<<(((ch % 256) + 8) % 256) % 32>>)
                          ELSE Some(encode_utf8(ch))
                ELSE Some(encode_utf8(ch))
          [] OTHER -> None

\* String::from_utf8 succeeds on the byte vector (bytes of the model are
\* single-byte code points or 0xFF)
ValidUtf8(bytes) == \A i \in DOMAIN bytes : bytes[i] < 128

\* ----- strip_ansi_formatting_and_apply_timestamp: lines 170-177 -----
\* characters are code points: ESC 27, '[' 91, ';' 59, 'm' 109, '0'..'9'
IsDigit(c) == c >= 48 /\ c <= 57

\* first index at or after j of s that is outside the class
RECURSIVE SkipDigitsSemi(_, _)
SkipDigitsSemi(s, j) ==
    IF j <= Len(s) /\ (IsDigit(s[j]) \/ s[j] = 59)
    THEN SkipDigitsSemi(s, j + 1) ELSE j

RECURSIVE SkipDigits(_, _)
SkipDigits(s, j) ==
    IF j <= Len(s) /\ IsDigit(s[j]) THEN SkipDigits(s, j + 1) ELSE j

\* index after the match of \x1b\[[0-9;]*m that starts at i, or 0
MatchSgr(s, i) ==
    IF i + 1 <= Len(s) /\ s[i] = 27 /\ s[i + 1] = 91
    THEN LET j == SkipDigitsSemi(s, i + 2)
         IN  IF j <= Len(s) /\ s[j] = 109 THEN j + 1 ELSE 0
    ELSE 0

\* index after the match of ;[0-9]*m that starts at i, or 0
MatchFragment(s, i) ==
    IF i <= Len(s) /\ s[i] = 59
    THEN LET j == SkipDigits(s, i + 1)
         IN  IF j <= Len(s) /\ s[j] = 109 THEN j + 1 ELSE 0
    ELSE 0

\* Regex::replace_all(s, ""): leftmost matches, left to right, not
\* overlapping, found in the original text
RECURSIVE RemoveSgr(_, _)
RemoveSgr(s, i) ==
    IF i > Len(s) THEN <<>>
    ELSE IF MatchSgr(s, i) # 0 THEN RemoveSgr(s, MatchSgr(s, i))
    ELSE <<s[i]>> \o RemoveSgr(s, i + 1)

RECURSIVE RemoveFragment(_, _)
RemoveFragment(s, i) ==
    IF i > Len(s) THEN <<>>
    ELSE IF MatchFragment(s, i) # 0
         THEN RemoveFragment(s, MatchFragment(s, i))
    ELSE <<s[i]>> \o RemoveFragment(s, i + 1)

\* the two replacement passes of lines 171-174
strip_ansi(s) == RemoveFragment(RemoveSgr(s, 1), 1)

\* Local::now().format("%+"): one token stands for the formatted time
current_time == <<256>>

\* format!("{current_time} - {line_str}")
strip_ansi_formatting_and_apply_timestamp(s) ==
    current_time \o <<32, 45, 32>> \o strip_ansi(s)

\* parser::esp_defmt::EspDefmt::new(elf) fails without a firmware image
EspDefmtNewFails(e) == ~e

\* buff after serial.read stored `data` at its start
Filled(b, data) ==
    [i \in 1..BuffLen |-> IF i <= Len(data) THEN data[i] ELSE b[i]]

Chunks == UNION {[1..n -> Byte] : n \in 0..BuffLen}

\* most bytes that can wait in the port: one more than the buffer holds
MaxPending == BuffLen + 1

\* the pure functions are not running
StripIdle == line_str = <<>> /\ stripped = <<>> /\ restripped = <<>>
KeyIdle == key_event = KeyEvent(KeyNamed("Null"), FALSE) /\ key_str = None
EraseIdle ==
    /\ partition_table = None /\ erase_parts = None
    /\ erase_data_parts = None /\ parts_to_erase = None
    /\ erased = <<>> /\ erase_result = "none"
RevIdle == chip_rev = <<>> /\ rev_result = None

Init ==
    /\ pc = "start"
    /\ interactive_mode \in BOOLEAN
    /\ log_format \in LogFormat
    /\ elf \in BOOLEAN
    /\ log_path \in BOOLEAN
    /\ raw_mode = "unset"
    /\ termRaw = FALSE
    /\ enableCalls = 0
    /\ disableCalls = 0
    /\ log_file = FALSE
    /\ buff = [i \in 1..BuffLen |-> 0]
    /\ read_count = 0
    /\ readKind = "none"
    /\ kbd = <<>>
    /\ reads = 0 /\ feeds = 0 /\ polls = 0 /\ resets = 0
    /\ writes = 0 /\ flushes = 0 /\ logAppends = 0
    /\ line = <<>> /\ logTail = <<>>
    /\ unread = 0 /\ written = <<>>
    /\ line_str = <<>> /\ stripped = <<>> /\ restripped = <<>>
    /\ key_event = KeyEvent(KeyNamed("Null"), FALSE) /\ key_str = None
    /\ EraseIdle /\ RevIdle
    /\ fpc = "none"
    /\ result = "none"
    /\ last = "init"

\* ----- monitor(): lines 81-95 -----
\* non-interactive start: reset_after_flash(...)? fails
SetupResetFails ==
    /\ pc = "start" /\ ~interactive_mode
    /\ resets' = resets + 1
    /\ result' = "Err" /\ pc' = "done" /\ last' = "SetupResetErr"
    /\ UNCHANGED <<args, pure, io, term, logf, buff, rd, kbd, reads, feeds,
                   polls, writes, flushes, logAppends>>

\* set_baud_rate(baud)? or set_timeout(5ms)? fails
SetupPortFails ==
    /\ pc = "start"
    /\ resets' = IF interactive_mode THEN resets ELSE resets + 1
    /\ result' = "Err" /\ pc' = "done" /\ last' = "SetupPortErr"
    /\ UNCHANGED <<args, pure, io, term, logf, buff, rd, kbd, reads, feeds,
                   polls, writes, flushes, logAppends>>

\* banner or reset, then baud rate and timeout are set
SetupOk ==
    /\ pc = "start"
    /\ resets' = IF interactive_mode THEN resets ELSE resets + 1
    /\ pc' = "raw" /\ last' = "SetupOk"
    /\ UNCHANGED <<args, pure, io, term, logf, buff, rd, kbd, reads, feeds,
                   polls, writes, flushes, logAppends, result>>

\* ----- line 98: let _raw_mode = RawModeGuard::new(); (no `?`) -----
EnableRaw ==
    /\ pc = "raw"
    /\ enableCalls' = enableCalls + 1
    /\ \E ok \in BOOLEAN :
        /\ raw_mode' = IF ok THEN "Ok" ELSE "Err"
        /\ termRaw' = (termRaw \/ ok)
    /\ pc' = "parser" /\ last' = "EnableRaw"
    /\ UNCHANGED <<args, pure, io, disableCalls, logf, buff, rd, kbd,
                   counters, result>>

\* ----- lines 100-106: printer and parser -----
MakeParserFails_Ignored ==
    /\ pc = "parser"
    /\ log_format = "Defmt" /\ EspDefmtNewFails(elf)
    /\ pc' = "logfile" /\ last' = "ParserErr"
    /\ UNCHANGED <<args, pure, io, term, logf, buff, rd, kbd, counters, result>>

\* EspDefmt::new(elf)? returns the error
MakeParserFails ==
    /\ pc = "parser"
    /\ log_format = "Defmt" /\ EspDefmtNewFails(elf)
    /\ result' = "Err" /\ pc' = "drop" /\ last' = "ParserErr"
    /\ UNCHANGED <<args, pure, io, term, logf, buff, rd, kbd, counters>>

MakeParserOk ==
    /\ pc = "parser"
    /\ ~(log_format = "Defmt" /\ EspDefmtNewFails(elf))
    /\ pc' = "logfile" /\ last' = "ParserOk"
    /\ UNCHANGED <<args, pure, io, term, logf, buff, rd, kbd, counters,
                   result>>

\* ----- lines 108-117: buffer and log file -----
OpenLog_Fatal ==
    /\ pc = "logfile"
    /\ buff' = [i \in 1..BuffLen |-> 0]
    /\ IF log_path
       THEN \E ok \in BOOLEAN :
            /\ log_file' = ok
            /\ IF ok THEN pc' = "read" /\ UNCHANGED result
                     ELSE pc' = "drop" /\ result' = "Err"
       ELSE log_file' = FALSE /\ pc' = "read" /\ UNCHANGED result
    /\ last' = "OpenLog"
    /\ UNCHANGED <<args, pure, io, line, logTail, term, rd, kbd, counters>>

OpenLog ==
    /\ pc = "logfile"
    /\ buff' = [i \in 1..BuffLen |-> 0]
    /\ IF log_path THEN log_file' \in BOOLEAN ELSE log_file' = FALSE
    /\ pc' = "read" /\ last' = "OpenLog"
    /\ UNCHANGED <<args, pure, io, line, logTail, term, rd, kbd, counters,
                   result>>

\* ----- lines 120-136: serial.read(&mut buff) -----
\* Ok(count): the whole buffer is converted and logged when a log file is open
SerialReadOk ==
    /\ pc = "read" /\ reads < MaxReads
    /\ reads' = reads + 1
    /\ readKind' = "Ok"
    /\ \E avail \in unread..MaxPending, data \in Chunks :
        \* the read takes what is there, as far as the buffer goes
        /\ Len(data) = (IF avail < BuffLen THEN avail ELSE BuffLen)
        /\ unread' = avail - Len(data)
        /\ buff' = Filled(buff, data)
        /\ IF log_file /\ ~ValidUtf8(buff')
           THEN \* String::from_utf8(..).unwrap() panics; unwinding drops
                \* the locals of monitor(), the guard included
                /\ result' = "Panic" /\ pc' = "drop" /\ last' = "ReadPanic"
                /\ UNCHANGED <<read_count, logAppends, line, logTail>>
           ELSE /\ IF log_file
                   THEN \* line = the whole buffer; both write_all results
                        \* are ignored
                        /\ line' = buff'
                        /\ logAppends' = logAppends + 1
                        /\ \E wrote, nl \in BOOLEAN :
                            logTail' =
                              (IF wrote
                               THEN strip_ansi_formatting_and_apply_timestamp(
                                        line')
                               ELSE <<>>)
                              \o (IF nl THEN <<10>> ELSE <<>>)
                   ELSE UNCHANGED <<logAppends, line, logTail>>
                /\ read_count' = Len(data)
                /\ pc' = "feed" /\ last' = "ReadOk"
                /\ UNCHANGED result
    /\ UNCHANGED <<args, pure, written, term, log_file, kbd, feeds, polls,
                   resets, writes, flushes>>

SerialReadTimedOut_Fatal ==
    /\ pc = "read" /\ reads < MaxReads
    /\ reads' = reads + 1
    /\ readKind' = "TimedOut"
    /\ result' = "Err" /\ pc' = "drop" /\ last' = "ReadTimedOut"
    /\ UNCHANGED <<args, pure, io, term, logf, buff, read_count, kbd, feeds,
                   polls, resets, writes, flushes, logAppends>>

\* Err(TimedOut) => Ok(0)
SerialReadTimedOut ==
    /\ pc = "read" /\ reads < MaxReads
    /\ unread = 0
    /\ reads' = reads + 1
    /\ unread' = 0
    /\ readKind' = "TimedOut"
    /\ read_count' = 0
    /\ pc' = "feed" /\ last' = "ReadTimedOut"
    /\ UNCHANGED <<args, pure, written, term, logf, buff, kbd, feeds, polls,
                   resets, writes, flushes, logAppends, result>>

SerialReadInterrupted_AsEmpty ==
    /\ pc = "read" /\ reads < MaxReads
    /\ reads' = reads + 1
    /\ readKind' = "Interrupted"
    /\ read_count' = 0
    /\ pc' = "feed" /\ last' = "ReadInterrupted"
    /\ UNCHANGED <<args, pure, io, term, logf, buff, kbd, feeds, polls, resets,
                   writes, flushes, logAppends, result>>

\* Err(Interrupted) => continue
SerialReadInterrupted ==
    /\ pc = "read" /\ reads < MaxReads
    /\ reads' = reads + 1
    /\ readKind' = "Interrupted"
    /\ pc' = "read" /\ last' = "ReadInterrupted"
    /\ UNCHANGED <<args, pure, io, term, logf, buff, read_count, kbd, feeds,
                   polls, resets, writes, flushes, logAppends, result>>

SerialReadFails_AsTimeout ==
    /\ pc = "read" /\ reads < MaxReads
    /\ reads' = reads + 1
    /\ readKind' = "Err"
    /\ read_count' = 0
    /\ pc' = "feed" /\ last' = "ReadErr"
    /\ UNCHANGED <<args, pure, io, term, logf, buff, kbd, feeds, polls, resets,
                   writes, flushes, logAppends, result>>

\* any other error: err.into_diagnostic()?
SerialReadFails ==
    /\ pc = "read" /\ reads < MaxReads
    /\ reads' = reads + 1
    /\ readKind' = "Err"
    /\ result' = "Err" /\ pc' = "drop" /\ last' = "ReadErr"
    /\ UNCHANGED <<args, pure, io, term, logf, buff, read_count, kbd, feeds,
                   polls, resets, writes, flushes, logAppends>>

\* ----- lines 138-144: parser.feed(&buff[0..read_count]) and flushes -----
Feed_Skipped ==
    /\ pc = "feed"
    /\ pc' = IF interactive_mode THEN "poll" ELSE "read"
    /\ last' = "Feed"
    /\ UNCHANGED <<args, pure, io, term, logf, buff, rd, kbd, counters,
                   result>>

Feed_AlwaysPoll ==
    /\ pc = "feed"
    /\ feeds' = feeds + 1
    /\ pc' = "poll"
    /\ last' = "Feed"
    /\ UNCHANGED <<args, pure, io, term, logf, buff, rd, kbd, reads, polls,
                   resets, writes, flushes, logAppends, result>>

Feed ==
    /\ pc = "feed"
    /\ feeds' = feeds + 1
    /\ pc' = IF interactive_mode THEN "poll" ELSE "read"
    /\ last' = "Feed"
    /\ UNCHANGED <<args, pure, io, term, logf, buff, rd, kbd, reads, polls,
                   resets, writes, flushes, logAppends, result>>

\* ----- lines 146-164: keyboard -----
\* poll(0)? fails
PollFails ==
    /\ pc = "poll"
    /\ polls' = polls + 1
    /\ result' = "Err" /\ pc' = "drop" /\ last' = "PollErr"
    /\ UNCHANGED <<args, pure, io, term, logf, buff, rd, kbd, reads, feeds,
                   resets, writes, flushes, logAppends>>

\* poll(0) is false: no event available
PollNothing ==
    /\ pc = "poll" /\ kbd = <<>>
    /\ polls' = polls + 1
    /\ pc' = "read" /\ last' = "PollNothing"
    /\ UNCHANGED <<args, pure, io, term, logf, buff, rd, kbd, reads, feeds,
                   resets, writes, flushes, logAppends, result>>

\* poll(0) is true and read()? fails
ReadEventFails ==
    /\ pc = "poll" /\ kbd # <<>>
    /\ polls' = polls + 1
    /\ result' = "Err" /\ pc' = "drop" /\ last' = "ReadEventErr"
    /\ UNCHANGED <<args, pure, io, term, logf, buff, rd, kbd, reads, feeds,
                   resets, writes, flushes, logAppends>>

\* read() delivers an event that is not a key
NonKeyEvent ==
    /\ pc = "poll" /\ kbd # <<>> /\ ~Head(kbd).isKey
    /\ polls' = polls + 1
    /\ kbd' = Tail(kbd)
    /\ pc' = "read" /\ last' = "NonKeyEvent"
    /\ UNCHANGED <<args, pure, io, term, logf, buff, rd, reads, feeds,
                   resets, writes, flushes, logAppends, result>>

IsCtrl(ev, c) == ev.isKey /\ ev.ctrl /\ ev.code = KeyChar(c)

KeyCtrlC_Forward ==
    /\ pc = "poll" /\ kbd # <<>> /\ IsCtrl(Head(kbd), 99)
    /\ polls' = polls + 1
    /\ kbd' = Tail(kbd)
    /\ writes' = writes + 1 /\ flushes' = flushes + 1
    /\ written' = <<3>>
    /\ pc' = "read" /\ last' = "KeyCtrlC"
    /\ UNCHANGED <<args, pure, unread, term, logf, buff, rd, reads, feeds,
                   resets, logAppends, result>>

\* Control+C => break; Ok(())
KeyCtrlC ==
    /\ pc = "poll" /\ kbd # <<>> /\ IsCtrl(Head(kbd), 99)
    /\ polls' = polls + 1
    /\ kbd' = Tail(kbd)
    /\ result' = "Ok" /\ pc' = "drop" /\ last' = "KeyCtrlC"
    /\ UNCHANGED <<args, pure, io, term, logf, buff, rd, reads, feeds,
                   resets, writes, flushes, logAppends>>

KeyCtrlR_Break ==
    /\ pc = "poll" /\ kbd # <<>> /\ IsCtrl(Head(kbd), 114)
    /\ polls' = polls + 1
    /\ kbd' = Tail(kbd)
    /\ resets' = resets + 1
    /\ result' = "Ok" /\ pc' = "drop" /\ last' = "KeyCtrlR"
    /\ UNCHANGED <<args, pure, io, term, logf, buff, rd, reads, feeds,
                   writes, flushes, logAppends>>

\* Control+R => reset_after_flash(...)?; continue
KeyCtrlR ==
    /\ pc = "poll" /\ kbd # <<>> /\ IsCtrl(Head(kbd), 114)
    /\ polls' = polls + 1
    /\ kbd' = Tail(kbd)
    /\ resets' = resets + 1
    /\ \E ok \in BOOLEAN :
        IF ok THEN /\ pc' = "read" /\ last' = "KeyCtrlR"
                   /\ UNCHANGED result
              ELSE /\ result' = "Err" /\ pc' = "drop"
                   /\ last' = "KeyCtrlRErr"
    /\ UNCHANGED <<args, pure, io, term, logf, buff, rd, reads, feeds,
                   writes, flushes, logAppends>>

\* any other key: handle_key_event, write_all(&bytes)?, flush()?
KeyOther ==
    /\ pc = "poll" /\ kbd # <<>> /\ Head(kbd).isKey
    /\ ~IsCtrl(Head(kbd), 99) /\ ~IsCtrl(Head(kbd), 114)
    /\ polls' = polls + 1
    /\ kbd' = Tail(kbd)
    /\ IF handle_key_event(Head(kbd)) = None
       THEN /\ pc' = "read" /\ last' = "KeyIgnored"
            /\ UNCHANGED <<writes, flushes, written, result>>
       ELSE \E w \in {"ok", "write_err", "flush_err"} :
            /\ writes' = writes + 1
            /\ written' = handle_key_event(Head(kbd))[2]
            /\ flushes' = IF w = "write_err" THEN flushes ELSE flushes + 1
            /\ IF w = "ok"
               THEN /\ pc' = "read" /\ last' = "KeySent"
                    /\ UNCHANGED result
               ELSE /\ result' = "Err" /\ pc' = "drop"
                    /\ last' = "KeySendErr"
    /\ UNCHANGED <<args, pure, unread, term, logf, buff, rd, reads, feeds,
                   resets, logAppends>>

\* ----- lines 63-69, 165-168: locals are dropped, monitor() returns -----
DropGuard_Forget ==
    /\ pc = "drop"
    /\ pc' = "done" /\ last' = "Drop"
    /\ UNCHANGED <<args, pure, io, term, logf, buff, rd, kbd, counters, result>>

DropGuard_Twice ==
    /\ pc = "drop"
    /\ IF raw_mode = "Ok"
       THEN /\ disableCalls' = disableCalls + 2
            /\ \E ok \in BOOLEAN :
                /\ termRaw' = (termRaw /\ ~ok)
                /\ last' = IF ok THEN "Drop" ELSE "DropDisableErr"
       ELSE /\ last' = "Drop"
            /\ UNCHANGED <<disableCalls, termRaw>>
    /\ pc' = "done"
    /\ UNCHANGED <<args, pure, io, raw_mode, enableCalls, logf, buff, rd,
                   kbd, counters, result>>

\* Drop for RawModeGuard runs iff _raw_mode is Ok(RawModeGuard)
DropGuard ==
    /\ pc = "drop"
    /\ IF raw_mode = "Ok"
       THEN /\ disableCalls' = disableCalls + 1
            /\ \E ok \in BOOLEAN :
                /\ termRaw' = (termRaw /\ ~ok)
                /\ last' = IF ok THEN "Drop" ELSE "DropDisableErr"
       ELSE /\ last' = "Drop"
            /\ UNCHANGED <<disableCalls, termRaw>>
    /\ pc' = "done"
    /\ UNCHANGED <<args, pure, io, raw_mode, enableCalls, logf, buff, rd,
                   kbd, counters, result>>

\* ----- environment: the operator presses a key -----
KeyPress ==
    /\ pc \in {"read", "feed", "poll"}
    /\ Len(kbd) < MaxKbd
    /\ \E ev \in LoopEvents : kbd' = Append(kbd, ev)
    /\ UNCHANGED <<pc, args, pure, io, term, logf, buff, rd, counters,
                   result, last>>

Next ==
    \/ SetupResetFails \/ SetupPortFails \/ SetupOk
    \/ EnableRaw
    \/ MakeParserFails \/ MakeParserOk
    \/ OpenLog
    \/ SerialReadOk \/ SerialReadTimedOut \/ SerialReadInterrupted
    \/ SerialReadFails
    \/ Feed
    \/ PollFails \/ PollNothing \/ ReadEventFails \/ NonKeyEvent
    \/ KeyCtrlC \/ KeyCtrlR \/ KeyOther
    \/ DropGuard
    \/ KeyPress

Spec == Init /\ [][Next]_vars

TypeOK ==
    /\ pc \in {"start", "raw", "parser", "logfile", "read", "feed", "poll",
               "drop", "done"}
    /\ raw_mode \in {"unset", "Ok", "Err"}
    /\ result \in {"none", "Ok", "Err", "Panic"}
    /\ read_count \in 0..BuffLen
    /\ Len(kbd) <= MaxKbd

\* ======================= the pure functions =======================

\* monitor() is not running
MonitorIdle ==
    /\ pc = "idle"
    /\ interactive_mode = FALSE /\ log_format = "Serial"
    /\ elf = FALSE /\ log_path = FALSE
    /\ raw_mode = "unset" /\ termRaw = FALSE
    /\ enableCalls = 0 /\ disableCalls = 0
    /\ log_file = FALSE
    /\ buff = [i \in 1..BuffLen |-> 0]
    /\ read_count = 0 /\ readKind = "none"
    /\ kbd = <<>>
    /\ reads = 0 /\ feeds = 0 /\ polls = 0 /\ resets = 0
    /\ writes = 0 /\ flushes = 0 /\ logAppends = 0
    /\ line = <<>> /\ logTail = <<>>
    /\ unread = 0 /\ written = <<>>
    /\ result = "none" /\ last = "init"

monitorVars ==
    <<pc, args, term, logf, buff, rd, kbd, io, counters, result, last>>

\* ----- the two replacement passes of lines 171-174, applied to a text -----
\* ESC, '[', ';', '0', 'm', 'A'
StripChars == {27, 91, 59, 48, 109, 65}

Texts == UNION {[1..n -> StripChars] : n \in 0..MaxText}

InitStrip ==
    /\ MonitorIdle
    /\ line_str \in Texts
    /\ stripped = <<>> /\ restripped = <<>>
    /\ KeyIdle /\ EraseIdle /\ RevIdle
    /\ fpc = "strip"

StripOnce ==
    /\ fpc = "strip"
    /\ stripped' = strip_ansi(line_str)
    /\ fpc' = "strip_again"
    /\ UNCHANGED <<monitorVars, line_str, restripped, keyVars, eraseVars,
                   revVars>>

StripAgain ==
    /\ fpc = "strip_again"
    /\ restripped' = strip_ansi(stripped)
    /\ fpc' = "stripped"
    /\ UNCHANGED <<monitorVars, line_str, stripped, keyVars, eraseVars,
                   revVars>>

NextStrip == StripOnce \/ StripAgain

SpecStrip == InitStrip /\ [][NextStrip]_vars

\* ----- handle_key_event applied to a key event -----
NamedKeys ==
    {"Backspace", "Enter", "Left", "Right", "Home", "End", "Up", "Down",
     "Tab", "Delete", "Insert", "Esc",
     "BackTab", "PageUp", "PageDown", "F", "Null", "CapsLock"}

\* ' ', digits, letters of both cases and their neighbours, DEL, then
\* code points at the edges of the 2-, 3- and 4-byte encodings
KeyChars ==
    {32, 48, 51, 52, 53, 54, 55, 56, 57, 64, 65, 90, 91, 96} \cup (97..122)
    \cup {123, 127, 128, 233, 353, 2047, 2048, 8364, 55295, 57344, 65535,
          65536, 128512, 1114111}

KeyEvents ==
    [isKey : {TRUE},
     code : {KeyNamed(k) : k \in NamedKeys} \cup {KeyChar(c) : c \in KeyChars},
     ctrl : BOOLEAN, shift : BOOLEAN]

InitKey ==
    /\ MonitorIdle
    /\ StripIdle /\ EraseIdle /\ RevIdle
    /\ key_event \in KeyEvents
    /\ key_str = None
    /\ fpc = "key"

Translate ==
    /\ fpc = "key"
    /\ key_str' = handle_key_event(key_event)
    /\ fpc' = "translated"
    /\ UNCHANGED <<monitorVars, stripVars, key_event, eraseVars, revVars>>

NextKey == Translate

SpecKey == InitKey /\ [][NextKey]_vars

\* ----- erase_partitions (cli/mod.rs) applied to a table and two lists -----
MaxLabels == 2

Partition(name, ty, subtype, offset) ==
    [name |-> name, ty |-> ty, subtype |-> subtype, offset |-> offset]

\* a table with one NVS partition, two FAT partitions and an application
PartitionPool ==
    <<Partition("nvs", "Data", "Nvs", 1), Partition("fat1", "Data", "Fat", 2),
      Partition("fat2", "Data", "Fat", 3),
      Partition("factory", "App", "Factory", 4)>>

Range(seq) == {seq[i] : i \in DOMAIN seq}

Keep(seq, names) ==
    LET Kept(part) == part.name \in names IN SelectSeq(seq, Kept)

PartitionTables ==
    {None} \cup
    {Some(Keep(PartitionPool, names)) :
        names \in SUBSET {"nvs", "fat1", "fat2", "factory"}}

Labels == {"nvs", "fat1", "factory", "bogus"}
DataTypes == {"Nvs", "Fat"}

Lists(elems) ==
    {None} \cup {Some(l) : l \in UNION {[1..n -> elems] : n \in 0..MaxLabels}}

\* PartitionTable::find: the first partition of that name
find(table, label) ==
    LET named == Keep(table, {label})
    IN IF named = <<>> THEN None ELSE Some(Head(named))

\* lines 661-663, 675-677: get_or_insert(HashMap::new()).insert(offset, part)
insert(parts, part) ==
    LET old == IF parts = None THEN <<>> ELSE parts[2]
    IN Some([o \in DOMAIN old \cup {part.offset} |->
                IF o = part.offset THEN part ELSE old[o]])

MissingPartition == <<"Err", "MissingPartition">>

RECURSIVE ByLabels_SkipMissing(_, _, _)
ByLabels_SkipMissing(table, part_labels, parts) ==
    IF part_labels = <<>> THEN parts
    ELSE LET part == find(table, Head(part_labels))
         IN IF part = None
            THEN ByLabels_SkipMissing(table, Tail(part_labels), parts)
            ELSE ByLabels_SkipMissing(table, Tail(part_labels),
                                      insert(parts, part[2]))

\* lines 655-665: the partitions named by the labels, or the first label
\* that the table does not have
RECURSIVE ByLabels(_, _, _)
ByLabels(table, part_labels, parts) ==
    IF part_labels = <<>> THEN parts
    ELSE LET part == find(table, Head(part_labels))
         IN IF part = None
            THEN MissingPartition
            ELSE ByLabels(table, Tail(part_labels), insert(parts, part[2]))

\* lines 672-679: the partitions of the table with type Data and subtype ty
RECURSIVE OfType(_, _, _)
OfType(partitions, ty, parts) ==
    IF partitions = <<>> THEN parts
    ELSE LET part == Head(partitions)
         IN OfType(Tail(partitions), ty,
                   IF part.ty = "Data" /\ part.subtype = ty
                   THEN insert(parts, part) ELSE parts)

\* lines 670-681
RECURSIVE ByTypes(_, _, _)
ByTypes(table, partition_types, parts) ==
    IF partition_types = <<>> THEN parts
    ELSE ByTypes(table, Tail(partition_types),
                 OfType(table, Head(partition_types), parts))

\* offsets of the selected partitions on which erase_region is yet to be
\* called
ToErase ==
    IF parts_to_erase = None THEN {}
    ELSE DOMAIN parts_to_erase[2] \ {erased[i].offset : i \in DOMAIN erased}

InitErase ==
    /\ MonitorIdle
    /\ StripIdle /\ KeyIdle /\ RevIdle
    /\ partition_table \in PartitionTables
    /\ erase_parts \in Lists(Labels)
    /\ erase_data_parts \in Lists(DataTypes)
    /\ parts_to_erase = None
    /\ erased = <<>>
    /\ erase_result = "none"
    /\ fpc = "erase"

eraseArgs == <<partition_table, erase_parts, erase_data_parts>>

\* lines 646-649
EraseNoTable ==
    /\ fpc = "erase" /\ partition_table = None
    /\ erase_result' = "Err"
    /\ fpc' = "erased"
    /\ UNCHANGED <<monitorVars, stripVars, keyVars, revVars, eraseArgs,
                   parts_to_erase, erased>>

\* lines 651-681
EraseSelect ==
    /\ fpc = "erase" /\ partition_table # None
    /\ LET table == partition_table[2]
           labelled == IF erase_parts = None THEN None
                       ELSE ByLabels(table, erase_parts[2], None)
       IN IF labelled = MissingPartition
          THEN /\ erase_result' = "Err"
               /\ fpc' = "erased"
               /\ UNCHANGED parts_to_erase
          ELSE /\ parts_to_erase' =
                      IF erase_data_parts = None THEN labelled
                      ELSE ByTypes(table, erase_data_parts[2], labelled)
               /\ fpc' = "erase_each"
               /\ UNCHANGED erase_result
    /\ UNCHANGED <<monitorVars, stripVars, keyVars, revVars, eraseArgs,
                   erased>>

\* lines 683-687, 694-702: erase_region on the next partition of the map,
\* in the order the map yields them; the first failure ends the call
EraseOne ==
    /\ fpc = "erase_each"
    /\ \E o \in ToErase :
          /\ erased' = Append(erased, parts_to_erase[2][o])
          /\ \E ok \in BOOLEAN :
                IF ok THEN UNCHANGED <<erase_result, fpc>>
                      ELSE erase_result' = "Err" /\ fpc' = "erased"
    /\ UNCHANGED <<monitorVars, stripVars, keyVars, revVars, eraseArgs,
                   parts_to_erase>>

\* line 689
EraseDone ==
    /\ fpc = "erase_each" /\ ToErase = {}
    /\ erase_result' = "Ok"
    /\ fpc' = "erased"
    /\ UNCHANGED <<monitorVars, stripVars, keyVars, revVars, eraseArgs,
                   parts_to_erase, erased>>

NextErase == EraseNoTable \/ EraseSelect \/ EraseOne \/ EraseDone

SpecErase == InitErase /\ [][NextErase]_vars

\* ----- parse_chip_rev (cli/mod.rs) applied to a string -----
MaxRev == 6
U16Max == 65535

\* '+', '.', '0', '5', '6', 'a'
RevChars == {43, 46, 48, 53, 54, 97}

Revs == UNION {[1..n -> RevChars] : n \in 0..MaxRev}

\* str::split('.'): the pieces between the dots, at least one
RECURSIVE split(_, _)
split(str, piece) ==
    IF str = <<>> THEN <<piece>>
    ELSE IF Head(str) = 46 THEN <<piece>> \o split(Tail(str), <<>>)
    ELSE split(Tail(str), Append(piece, Head(str)))

\* the digits of str::parse::<u16>, most significant first: None on a
\* character that is no digit and on a value above u16::MAX
RECURSIVE digits(_, _)
digits(str, value) ==
    IF str = <<>> THEN Some(value)
    ELSE IF ~IsDigit(Head(str)) THEN None
    ELSE LET next == value * 10 + (Head(str) - 48)
         IN IF next > U16Max THEN None ELSE digits(Tail(str), next)

\* str::parse::<u16>: an optional '+', then one digit or more
parse_u16(str) ==
    IF str = <<>> THEN None
    ELSE IF Head(str) = 43
         THEN IF Len(str) = 1 THEN None ELSE digits(Tail(str), 0)
         ELSE digits(str, 0)

\* line 376-386: a component that is there and parses
parse_or_error(pieces, i) ==
    IF i > Len(pieces) THEN None ELSE parse_u16(pieces[i])

ParseChipRevError == <<"Err", "ParseChipRevError">>
Overflow == <<"Panic", "overflow">>

\* line 400 in u16: with overflow checks the build panics, without them the
\* value wraps
MulAdd(major, minor) ==
    IF major * 100 + minor <= U16Max
    THEN {<<"Ok", major * 100 + minor>>}
    ELSE {Overflow, <<"Ok", (major * 100 + minor) % (U16Max + 1)>>}

\* lines 373-401: the outcomes of parse_chip_rev
parse_chip_rev(str) ==
    LET pieces == split(str, <<>>)
        major == parse_or_error(pieces, 1)
        minor == parse_or_error(pieces, 2)
    IN IF major = None \/ minor = None THEN {ParseChipRevError}
       ELSE IF Len(pieces) > 2 THEN {ParseChipRevError}
       ELSE MulAdd(major[2], minor[2])

InitRev ==
    /\ MonitorIdle
    /\ StripIdle /\ KeyIdle /\ EraseIdle
    /\ chip_rev \in Revs
    /\ rev_result = None
    /\ fpc = "rev"

ParseChipRev ==
    /\ fpc = "rev"
    /\ rev_result' \in parse_chip_rev(chip_rev)
    /\ fpc' = "rev_parsed"
    /\ UNCHANGED <<monitorVars, stripVars, keyVars, eraseVars, chip_rev>>

NextRev == ParseChipRev

SpecRev == InitRev /\ [][NextRev]_vars

\* ======================= the loop as a cycle =======================
\* The loop of lines 119-165 once more, without the call counters, so that
\* it can run for ever: which statement follows which, for every outcome of
\* the external calls.  Logging is off and the bytes read are left out;
\* reads counts the calls of serial.read modulo MaxReads + 1.

loopKept ==
    <<args, term, logf, buff, unread, pure,
      feeds, polls, resets, writes, flushes, logAppends>>

Retry == reads' = (reads + 1) % (MaxReads + 1)

InitLoop ==
    /\ pc = "read"
    /\ interactive_mode \in BOOLEAN
    /\ log_format = "Serial" /\ elf = FALSE /\ log_path = FALSE
    /\ raw_mode \in {"Ok", "Err"} /\ termRaw = (raw_mode = "Ok")
    /\ enableCalls = 1 /\ disableCalls = 0
    /\ log_file = FALSE
    /\ buff = [i \in 1..BuffLen |-> 0]
    /\ read_count = 0 /\ readKind = "none"
    /\ kbd = <<>>
    /\ reads = 0 /\ feeds = 0 /\ polls = 0 /\ resets = 0
    /\ writes = 0 /\ flushes = 0 /\ logAppends = 0
    /\ line = <<>> /\ logTail = <<>>
    /\ unread = 0 /\ written = <<>>
    /\ StripIdle /\ KeyIdle /\ EraseIdle /\ RevIdle
    /\ fpc = "none"
    /\ result = "none"
    /\ last = "OpenLog"

\* line 120-132: Ok(count)
LoopReadOk ==
    /\ pc = "read"
    /\ Retry
    /\ readKind' = "Ok" /\ read_count' \in 0..BuffLen
    /\ pc' = "feed" /\ last' = "ReadOk"
    /\ UNCHANGED <<loopKept, kbd, written, result>>

LoopReadTimedOut_Continue ==
    /\ pc = "read"
    /\ Retry
    /\ readKind' = "TimedOut" /\ read_count' = 0
    /\ pc' = "read" /\ last' = "ReadTimedOut"
    /\ UNCHANGED <<loopKept, kbd, written, result>>

\* line 133: Err(TimedOut) => Ok(0)
LoopReadTimedOut ==
    /\ pc = "read"
    /\ Retry
    /\ readKind' = "TimedOut" /\ read_count' = 0
    /\ pc' = "feed" /\ last' = "ReadTimedOut"
    /\ UNCHANGED <<loopKept, kbd, written, result>>

\* line 134: Err(Interrupted) => continue
LoopReadInterrupted ==
    /\ pc = "read"
    /\ Retry
    /\ readKind' = "Interrupted"
    /\ pc' = "read" /\ last' = "ReadInterrupted"
    /\ UNCHANGED <<loopKept, read_count, kbd, written, result>>

\* lines 135-136: any other error
LoopReadFails ==
    /\ pc = "read"
    /\ Retry
    /\ readKind' = "Err"
    /\ result' = "Err" /\ pc' = "drop" /\ last' = "ReadErr"
    /\ UNCHANGED <<loopKept, read_count, kbd, written>>

\* lines 138-146: feed, flushes, then the keyboard if interactive
LoopFeed ==
    /\ pc = "feed"
    /\ pc' = IF interactive_mode THEN "poll" ELSE "read"
    /\ last' = "Feed"
    /\ UNCHANGED <<loopKept, reads, rd, kbd, written, result>>

\* line 146-147: poll(0)? or read()? fails
LoopTerminalFails ==
    /\ pc = "poll"
    /\ result' = "Err" /\ pc' = "drop"
    /\ last' = IF kbd = <<>> THEN "PollErr" ELSE "ReadEventErr"
    /\ UNCHANGED <<loopKept, reads, rd, kbd, written>>

\* line 146: no event
LoopPollNothing ==
    /\ pc = "poll" /\ kbd = <<>>
    /\ pc' = "read" /\ last' = "PollNothing"
    /\ UNCHANGED <<loopKept, reads, rd, kbd, written, result>>

\* lines 147-163: the event at the head of the queue is read and handled
LoopEvent ==
    /\ pc = "poll" /\ kbd # <<>>
    /\ kbd' = Tail(kbd)
    /\ LET ev == Head(kbd) IN
        IF ~ev.isKey
        THEN /\ pc' = "read" /\ last' = "NonKeyEvent"
             /\ UNCHANGED <<written, result>>
        ELSE IF IsCtrl(ev, 99)
        THEN /\ result' = "Ok" /\ pc' = "drop" /\ last' = "KeyCtrlC"
             /\ UNCHANGED written
        ELSE IF IsCtrl(ev, 114)
        THEN /\ \E ok \in BOOLEAN :
                 IF ok THEN /\ pc' = "read" /\ last' = "KeyCtrlR"
                            /\ UNCHANGED result
                       ELSE /\ result' = "Err" /\ pc' = "drop"
                            /\ last' = "KeyCtrlRErr"
             /\ UNCHANGED written
        ELSE IF handle_key_event(ev) = None
        THEN /\ pc' = "read" /\ last' = "KeyIgnored"
             /\ UNCHANGED <<written, result>>
        ELSE /\ written' = handle_key_event(ev)[2]
             /\ \E ok \in BOOLEAN :
                 IF ok THEN /\ pc' = "read" /\ last' = "KeySent"
                            /\ UNCHANGED result
                       ELSE /\ result' = "Err" /\ pc' = "drop"
                            /\ last' = "KeySendErr"
    /\ UNCHANGED <<loopKept, reads, rd>>

\* lines 165-168: the loop is left, monitor() returns
LoopReturn ==
    /\ pc = "drop"
    /\ pc' = "done"
    /\ UNCHANGED <<loopKept, reads, rd, kbd, written, result, last>>

\* statements of monitor()
LoopStep ==
    \/ LoopReadOk \/ LoopReadTimedOut \/ LoopReadInterrupted
    \/ LoopReadFails
    \/ LoopFeed
    \/ LoopTerminalFails \/ LoopPollNothing \/ LoopEvent
    \/ LoopReturn

\* the operator presses a key
LoopKeyPress ==
    /\ pc \in {"read", "feed", "poll"}
    /\ Len(kbd) < MaxKbd
    /\ \E ev \in LoopEvents : kbd' = Append(kbd, ev)
    /\ UNCHANGED <<loopKept, reads, pc, rd, written, result, last>>

NextLoop == LoopStep \/ LoopKeyPress

\* monitor() is the only thread and every call it makes returns (the read
\* after 5 ms at the latest, the poll at once): it always takes its next
\* step.  Nothing is assumed about the outcomes of the calls.
SpecLoop == InitLoop /\ [][NextLoop]_vars /\ WF_vars(LoopStep)

\* ======================= properties =======================

Returned == pc = "done"
InLoop == pc \in {"read", "feed", "poll"}

\* a step of the loop that takes the event at the head of the queue
Delivers(c) ==
    pc = "poll" /\ kbd # <<>> /\ IsCtrl(Head(kbd), c) /\ kbd' = Tail(kbd)

\* the statement executed by a step is a serial.read with the given outcome
ReadStep(kind) == reads' = reads + 1 /\ readKind' = kind

\* C1 (as stated): whenever raw mode was enabled, monitor() returns with
\* disable_raw_mode called exactly once and the terminal no longer raw.
C1_RestoredExactlyOnce ==
    (Returned /\ raw_mode = "Ok") => (disableCalls = 1 /\ ~termRaw)

\* C1 (amended): whenever raw mode was enabled, monitor() returns (or
\* unwinds) after exactly one call of disable_raw_mode, never two and never
\* none; the terminal is still raw afterwards only if that call failed.
\* Without a guard no disable call is made.
C1_DisableCalledOnce ==
    /\ disableCalls <= 1
    /\ (Returned /\ raw_mode = "Ok") =>
            (disableCalls = 1 /\ (termRaw => last = "DropDisableErr"))
    /\ ~Returned => disableCalls = 0
    /\ raw_mode # "Ok" => (disableCalls = 0 /\ ~termRaw)

C1_Witness ==
    Returned /\ raw_mode = "Ok" /\ disableCalls = 1 /\ ~termRaw
             /\ result = "Ok"

\* C2 (as stated): with interactive = false monitor() resets the device and
\* returns without entering the polling loop (no serial read).
C2_NonInteractiveReturnsAfterReset ==
    ~interactive_mode => (reads = 0 /\ ~InLoop)

\* C2 (amended): with interactive = false monitor() resets the device once,
\* before anything else, and when setup succeeds it enters the polling
\* loop, in which the keyboard is never polled and nothing is written to the
\* serial channel; the call never returns success, it ends only by an error.
C2_NonInteractiveMonitors ==
    ~interactive_mode =>
        /\ resets = (IF pc = "start" THEN 0 ELSE 1)
        /\ polls = 0 /\ writes = 0 /\ flushes = 0 /\ pc # "poll"
        /\ result # "Ok"

C2_Witness ==
    ~interactive_mode /\ pc = "read" /\ reads >= 2 /\ feeds >= 2
                      /\ kbd # <<>>

\* C3 (as stated): with interactive = false, no firmware image and the
\* Serial format, raw mode is never enabled.
C3_NonInteractiveNeverRaw ==
    (~interactive_mode /\ ~elf /\ log_format = "Serial") =>
        (enableCalls = 0 /\ ~termRaw)

\* C3 (amended): with interactive = false, no firmware image and the Serial
\* format, raw mode is not touched until the reset and the port setup are
\* done; enable_raw_mode is then called once, the terminal is raw for the
\* whole loop if that call succeeded, and the guard calls disable_raw_mode
\* once before monitor() returns.
C3_NonInteractiveRawAfterSetup ==
    (~interactive_mode /\ ~elf /\ log_format = "Serial") =>
        /\ enableCalls = (IF pc \in {"start", "raw"} \/ raw_mode = "unset"
                          THEN 0 ELSE 1)
        /\ enableCalls = 1 => resets = 1
        /\ InLoop => (termRaw <=> raw_mode = "Ok")
        /\ Returned => disableCalls = (IF raw_mode = "Ok" THEN 1 ELSE 0)

C3_Witness ==
    ~interactive_mode /\ ~elf /\ log_format = "Serial" /\ termRaw
        /\ pc = "read" /\ reads >= 1

\* C4 (as stated): with the Defmt format and no firmware image the terminal
\* mode is never changed: enable_raw_mode is not called.
C4_DefmtFailsBeforeRaw ==
    (log_format = "Defmt" /\ ~elf) => (enableCalls = 0 /\ ~termRaw)

\* C4 (amended): with the Defmt format and no firmware image monitor()
\* returns an error without opening the log file or entering the loop;
\* enable_raw_mode has been called by then, and the guard calls
\* disable_raw_mode once before monitor() returns, so the terminal is left
\* raw only if that call fails.
C4_DefmtFailsBeforeLoop ==
    (log_format = "Defmt" /\ ~elf) =>
        /\ pc \notin {"logfile", "read", "feed", "poll"}
        /\ reads = 0 /\ ~log_file
        /\ pc = "drop" => (result = "Err" /\ enableCalls = 1)
        /\ Returned =>
            /\ result = "Err"
            /\ disableCalls = (IF raw_mode = "Ok" THEN 1 ELSE 0)
            /\ termRaw => last = "DropDisableErr"

C4_Witness ==
    log_format = "Defmt" /\ ~elf /\ Returned /\ result = "Err"
        /\ enableCalls = 1 /\ disableCalls = 1 /\ ~termRaw

\* C5: if enabling raw mode fails, monitor() fails and never enters the
\* polling loop: no serial read and no keyboard poll follows.
C5_EnableFailureIsFatal ==
    raw_mode = "Err" =>
        (reads = 0 /\ polls = 0 /\ ~InLoop /\ (Returned => result = "Err"))

\* C6: in interactive mode every serial read and every keyboard poll starts
\* with exactly one live RawModeGuard: raw mode enabled and not yet restored.
C6_GuardHeldInLoop ==
    (interactive_mode /\ pc \in {"read", "poll"}) =>
        (raw_mode = "Ok" /\ termRaw /\ disableCalls = 0)

\* C7: in interactive mode a delivered Control+C ends the loop with success,
\* with no serial read, no reset and no write or flush of the serial channel
\* for that event or after it.
C7_CtrlCExits ==
    /\ [][Delivers(99) =>
            /\ result' = "Ok" /\ pc' = "drop"
            /\ UNCHANGED <<reads, resets, writes, flushes>>]_vars
    /\ [][result = "Ok" =>
            /\ result' = "Ok" /\ pc' = "done"
            /\ UNCHANGED <<reads, resets, writes, flushes, polls, feeds>>]_vars
    /\ [](result = "Ok" => (interactive_mode /\ pc \in {"drop", "done"}))

C7_Witness ==
    Returned /\ result = "Ok" /\ interactive_mode /\ reads >= 2
        /\ writes = 0 /\ resets = 0

\* C8 (as stated): a delivered Control+R issues a reset and the loop goes on
\* with the next serial read; it never makes the loop exit.
C8_CtrlRNeverExits ==
    [][Delivers(114) =>
        (resets' = resets + 1 /\ pc' = "read" /\ result' = "none")]_vars

\* C8 (amended): a delivered Control+R issues one reset and writes nothing
\* to the serial channel; when the reset succeeds the loop goes on with the
\* next serial read, and when the reset fails monitor() returns that error.
\* Control+R never ends the session with success.
C8_CtrlRResets ==
    [][Delivers(114) =>
        /\ resets' = resets + 1
        /\ UNCHANGED <<writes, flushes, reads>>
        /\ \/ pc' = "read" /\ result' = "none" /\ last' = "KeyCtrlR"
           \/ pc' = "drop" /\ result' = "Err" /\ last' = "KeyCtrlRErr"]_vars

C8_Witness ==
    interactive_mode /\ resets >= 1 /\ pc = "feed" /\ result = "none"
        /\ reads >= 2

\* C9: a serial read that times out counts as zero bytes and is no error:
\* the loop goes on to the decoder and, in interactive mode, polls the
\* keyboard in the same iteration before any other serial read; an event
\* that is pending then is taken unless the terminal call itself fails.
C9_TimeoutThenKeyboard ==
    /\ [][ReadStep("TimedOut") =>
            /\ read_count' = 0 /\ result' = "none" /\ pc' = "feed"
            /\ UNCHANGED <<logAppends, buff>>]_vars
    /\ [][(pc = "feed" /\ pc' # "feed") =>
            /\ pc' = (IF interactive_mode THEN "poll" ELSE "read")
            /\ result' = "none"
            /\ UNCHANGED <<reads, rd>>]_vars
    /\ [][(pc = "poll" /\ pc' # "poll") =>
            /\ polls' = polls + 1 /\ reads' = reads
            /\ (kbd # <<>> /\ last' \notin {"PollErr", "ReadEventErr"})
                    => kbd' = Tail(kbd)]_vars

C9_Witness ==
    interactive_mode /\ readKind = "TimedOut" /\ last = "KeySent"
        /\ pc = "read" /\ reads = 1 /\ polls = 1

\* C10: a serial read that fails with Interrupted is no error and is retried
\* at once: the next statement is another serial read, with no decoder
\* feed, no log append, no keyboard poll and no exit in between.
C10_InterruptedRetries ==
    /\ [][ReadStep("Interrupted") =>
            /\ pc' = "read" /\ result' = "none"
            /\ UNCHANGED <<feeds, logAppends, polls, writes, resets, buff,
                           read_count, kbd>>]_vars
    /\ [][last = "ReadInterrupted" =>
            \/ reads' = reads + 1
            \/ UNCHANGED <<pc, counters, result, rd, buff>>]_vars

C10_Witness ==
    last = "ReadInterrupted" /\ readKind = "Interrupted" /\ pc = "read"
        /\ reads >= 2 /\ log_file /\ interactive_mode /\ kbd # <<>>
        /\ feeds = 0 /\ logAppends = 0 /\ polls = 0

\* C11: a serial read error other than TimedOut and Interrupted, and a
\* failed serial write or flush, abort the session: monitor() returns an
\* error, no further serial read, write or flush happens, and a guard that
\* is held is released (disable_raw_mode is called) before the return.
C11_FatalIOAborts ==
    /\ [][ReadStep("Err") =>
            /\ result' = "Err" /\ pc' = "drop"
            /\ UNCHANGED <<feeds, polls, writes, flushes, logAppends>>]_vars
    /\ [][((writes' = writes + 1 /\ flushes' = flushes)
           \/ (writes' = writes + 1 /\ last' = "KeySendErr")) =>
            (result' = "Err" /\ pc' = "drop" /\ reads' = reads)]_vars
    /\ [][result = "Err" =>
            /\ result' = "Err" /\ pc' = "done"
            /\ UNCHANGED <<reads, writes, flushes, resets, polls, feeds>>
            /\ disableCalls' =
                 disableCalls + (IF raw_mode = "Ok" THEN 1 ELSE 0)]_vars

C11_Witness ==
    Returned /\ result = "Err" /\ readKind = "Err" /\ reads >= 2
        /\ raw_mode = "Ok" /\ disableCalls = 1 /\ ~termRaw

\* C12: when a log path is given and the file cannot be opened, the session
\* goes on into the polling loop without file logging, and monitor() does
\* not return an error because of it.
C12_LogOpenFailureNotFatal ==
    /\ [][(pc = "logfile" /\ pc' # "logfile") =>
            /\ pc' = "read" /\ result' = "none"
            /\ ~log_path => ~log_file']_vars
    /\ [][(InLoop /\ ~log_file) =>
            (~log_file' /\ UNCHANGED <<logAppends, line, logTail>>)]_vars

C12_Witness ==
    log_path /\ ~log_file /\ pc = "feed" /\ readKind = "Ok"
        /\ result = "none" /\ logAppends = 0

\* C13: with a log file open no outcome of the logging step ends the
\* session: after every successful read, whatever the bytes and whatever
\* the log write results, the loop goes on to decode the chunk.
C13_LoggingNeverEndsSession ==
    [][(ReadStep("Ok") /\ log_file) =>
            (pc' = "feed" /\ result' = "none")]_vars

\* the lines of a piece of text: maximal runs without a line feed; a final
\* line feed ends the last line, it does not start an empty one
RECURSIVE LinesOf(_, _)
LinesOf(bytes, cur) ==
    IF bytes = <<>> THEN (IF cur = <<>> THEN <<>> ELSE <<cur>>)
    ELSE IF Head(bytes) = 10 THEN <<cur>> \o LinesOf(Tail(bytes), <<>>)
    ELSE LinesOf(Tail(bytes), Append(cur, Head(bytes)))

StartsWith(l, prefix) ==
    Len(l) >= Len(prefix) /\ SubSeq(l, 1, Len(prefix)) = prefix

\* C14: every line that a written log entry puts into the log file begins
\* with a timestamp followed by " - ", whatever chunk was received (line
\* feeds inside the chunk included).
C14_EveryLogLineStamped ==
    StartsWith(logTail, current_time) =>
        \A k \in DOMAIN LinesOf(logTail, <<>>) :
            StartsWith(LinesOf(logTail, <<>>)[k],
                       current_time \o <<32, 45, 32>>)

\* C19: in an iteration where bytes are read, the text handed to the logger
\* (before stripping and timestamping) is exactly the window handed to the
\* decoder, buff[0..read_count].
C19_LogEqualsDecoderWindow ==
    (pc = "feed" /\ readKind = "Ok" /\ log_file /\ read_count > 0) =>
        line = SubSeq(buff, 1, read_count)

\* C20: with a log file open a read that yields no byte (timeout,
\* interrupted, or a successful read of length 0) appends nothing, and a
\* read that yields bytes appends exactly one entry.
C20_OneEntryPerNonEmptyChunk ==
    [][(reads' = reads + 1 /\ log_file /\ pc' # "drop") =>
        logAppends' = logAppends
            + (IF readKind' = "Ok" /\ read_count' > 0 THEN 1 ELSE 0)]_vars

\* C15: the strip function (both replacement passes, no timestamp) is
\* idempotent: a second application changes nothing.
C15_StripIdempotent ==
    fpc = "stripped" => restripped = stripped

\* the fixed table of the named keys, as the specification lists it
KeyTable ==
    [Backspace |-> <<8>>, Enter |-> <<13>>, Tab |-> <<9>>, Esc |-> <<27>>,
     Up |-> <<27, 91, 65>>, Down |-> <<27, 91, 66>>,
     Right |-> <<27, 91, 67>>, Left |-> <<27, 91, 68>>,
     Home |-> <<27, 91, 72>>, End |-> <<27, 91, 70>>,
     Delete |-> <<27, 91, 51, 126>>, Insert |-> <<27, 91, 50, 126>>]

Translated == fpc = "translated"
IsCharKey == key_event.code.kind = "Char"
CodePoint == key_event.code.ch

\* the character keys that Control turns into a control byte
ControlMapped ==
    /\ IsCharKey /\ key_event.ctrl
    /\ \/ (CodePoint >= 97 /\ CodePoint <= 122)
       \/ CodePoint = 32
       \/ (CodePoint >= 52 /\ CodePoint <= 55)

\* C16: every named key of the table translates to its one fixed byte
\* sequence whatever the modifiers, and every other key that is not a
\* character key translates to nothing.
C16_NamedKeysFixed ==
    (Translated /\ ~IsCharKey) =>
        IF key_event.code.kind \in DOMAIN KeyTable
        THEN key_str = Some(KeyTable[key_event.code.kind])
        ELSE key_str = None

C16_Witness ==
    Translated /\ key_event.code.kind = "Home" /\ key_event.ctrl
        /\ key_event.shift /\ key_str = Some(<<27, 91, 72>>)

\* C17: with Control held a lowercase ASCII letter or a space translates to
\* the one byte (code AND 0x1F), that is 'a'..'z' to 1..26 and ' ' to 0, and
\* '4'..'7' translate to the one byte 0x1C..0x1F; the byte never leaves the
\* 8-bit range.
C17_ControlBytes ==
    (Translated /\ ControlMapped) =>
        /\ key_str = Some(<<IF CodePoint = 32 THEN 0
                            ELSE IF CodePoint >= 97 THEN CodePoint - 96
                            ELSE CodePoint - 24>>)
        /\ key_str[2][1] \in 0..31

C17_Witness ==
    Translated /\ key_event.ctrl /\ key_event.code = KeyChar(55)
        /\ key_str = Some(<<31>>)

\* value of one UTF-8 sequence, -1 if the bytes are not the shortest
\* well-formed encoding of a code point
Continuation(b) == b >= 128 /\ b <= 191

Utf8Value(b) ==
    LET n == Len(b)
        v == CASE n = 1 -> b[1]
               [] n = 2 -> (b[1] - 192) * 64 + (b[2] - 128)
               [] n = 3 -> (b[1] - 224) * 4096 + (b[2] - 128) * 64
                            + (b[3] - 128)
               [] n = 4 -> (b[1] - 240) * 262144 + (b[2] - 128) * 4096
                            + (b[3] - 128) * 64 + (b[4] - 128)
               [] OTHER -> -1
        lead == CASE n = 1 -> b[1] >= 0 /\ b[1] <= 127
                  [] n = 2 -> b[1] >= 194 /\ b[1] <= 223
                  [] n = 3 -> b[1] >= 224 /\ b[1] <= 239
                  [] n = 4 -> b[1] >= 240 /\ b[1] <= 244
                  [] OTHER -> FALSE
        shortest == CASE n = 1 -> TRUE
                      [] n = 2 -> v >= 128
                      [] n = 3 -> v >= 2048
                      [] n = 4 -> v >= 65536
                      [] OTHER -> FALSE
    IN  IF lead /\ shortest /\ \A i \in 2..n : Continuation(b[i])
        THEN v ELSE -1

\* C18: every other character key, with or without Control, translates to
\* exactly the character's UTF-8 bytes (1 to 4 of them); Control with an
\* uppercase letter or with a digit outside '4'..'7' is the raw character.
C18_OtherCharsRaw ==
    (Translated /\ IsCharKey /\ ~ControlMapped) =>
        /\ key_str[1] = "Some"
        /\ Len(key_str[2]) \in 1..4
        /\ Utf8Value(key_str[2]) = CodePoint

C18_Witness ==
    Translated /\ key_event.ctrl /\ key_event.code = KeyChar(65)
        /\ key_str = Some(<<65>>)

\* C21 (as stated): whatever amount of data is waiting, all of it has been
\* read and fed to the decoder when the keyboard is polled.
C21_AllPendingDrained ==
    (pc = "poll" /\ readKind = "Ok") => unread = 0

\* C21 (amended): an iteration does one serial read, which takes the
\* waiting bytes up to the size of the buffer, and feeds them to the
\* decoder before the keyboard is polled; bytes beyond the size of the
\* buffer stay in the port for the next iteration.
C21_OneBufferPerIteration ==
    /\ [][(ReadStep("Ok") /\ pc' # "drop") =>
            /\ pc' = "feed" /\ read_count' <= BuffLen
            /\ unread' > 0 => read_count' = BuffLen]_vars
    /\ [][(pc # "poll" /\ pc' = "poll") =>
            /\ pc = "feed" /\ feeds' = feeds + 1
            /\ UNCHANGED <<reads, rd, buff, unread>>]_vars
    /\ [][(pc = "feed" /\ pc' # "feed") => feeds' = feeds + 1]_vars

C21_Witness ==
    interactive_mode /\ pc = "poll" /\ readKind = "Ok" /\ unread > 0
        /\ read_count = BuffLen /\ feeds = 1

\* C23: the loop ends only by Control+C in interactive mode or by a fatal
\* I/O error: monitor() returns success only after a Control+C key event in
\* interactive mode, and every other end is an error return.
C23_LoopEndsByCtrlCOrError ==
    /\ pc = "drop" =>
        \/ result = "Err"
        \/ result = "Ok" /\ interactive_mode /\ last = "KeyCtrlC"
    /\ Returned => (result = "Err" \/ (result = "Ok" /\ interactive_mode))

\* a step of the loop that takes the event at the head of the queue
Takes == pc = "poll" /\ kbd # <<>> /\ kbd' = Tail(kbd)

\* the event at the head is a key that is forwarded to the device
Forwarded(ev) ==
    /\ ev.isKey /\ ~IsCtrl(ev, 99) /\ ~IsCtrl(ev, 114)
    /\ handle_key_event(ev) # None

\* C24: in interactive mode a key event other than Control+C and Control+R
\* whose translation is a byte sequence makes the loop call write_all with
\* exactly that sequence and then flush, before the next serial read (a
\* failed write_all ends the session before the flush); every other event
\* and every other statement writes nothing, so in non-interactive mode
\* nothing is ever written.
C24_KeysForwarded ==
    /\ [][(Takes /\ Forwarded(Head(kbd))) =>
            /\ writes' = writes + 1
            /\ written' = handle_key_event(Head(kbd))[2]
            /\ reads' = reads
            /\ \/ flushes' = flushes + 1
               \/ flushes' = flushes /\ result' = "Err" /\ pc' = "drop"
            /\ pc' = "read" => (flushes' = flushes + 1 /\ result' = "none")
          ]_vars
    /\ [][~(Takes /\ Forwarded(Head(kbd))) =>
            UNCHANGED <<writes, flushes, written>>]_vars
    /\ [](~interactive_mode => (writes = 0 /\ flushes = 0 /\ written = <<>>))

C24_Witness ==
    interactive_mode /\ last = "KeySent" /\ pc = "read"
        /\ written = <<27, 91, 65>> /\ writes = 1 /\ flushes = 1

KeyPending == interactive_mode /\ pc = "read" /\ kbd # <<>>
Polled == pc = "poll" \/ ~InLoop

\* C22 (as stated): neither source starves the other: for every infinite
\* sequence of read outcomes a pending key event is eventually polled (or
\* the session has ended), and after every keyboard poll the serial port is
\* eventually read again.
C22_NoStarvation ==
    /\ KeyPending ~> Polled
    /\ (pc = "poll") ~> (pc = "read" \/ ~InLoop)

\* C22 (amended): for every infinite sequence of read outcomes that does
\* not end in Interrupted for ever, a pending key event is eventually
\* polled (or the session has ended); after every keyboard poll the serial
\* port is eventually read again. An unbroken run of Interrupted reads
\* retries the read without polling the keyboard.
C22_NoStarvationUnlessInterrupted ==
    /\ ([]<>~(pc = "read" /\ readKind = "Interrupted"))
            => (KeyPending ~> Polled)
    /\ (pc = "poll") ~> (pc = "read" \/ ~InLoop)

C22_Witness ==
    interactive_mode /\ pc = "read" /\ last = "KeyCtrlR"
        /\ readKind = "TimedOut" /\ kbd = <<>>

\* the partitions of the table that the two lists ask for
Selected ==
    IF partition_table = None THEN {}
    ELSE {part \in Range(partition_table[2]) :
            \/ erase_parts # None /\ part.name \in Range(erase_parts[2])
            \/ /\ erase_data_parts # None
               /\ part.ty = "Data"
               /\ part.subtype \in Range(erase_data_parts[2])}

SelectionError ==
    \/ partition_table = None
    \/ /\ erase_parts # None
       /\ \E label \in Range(erase_parts[2]) :
             \A part \in Range(partition_table[2]) : part.name # label

\* C25: with the table absent or a requested label not in the table,
\* erase_partitions returns an error and has issued no erase; otherwise
\* only selected partitions are erased, none of them twice, and on success
\* every selected partition has been erased.
C25_EraseAllOrNothingAtMostOnce ==
    /\ SelectionError => erased = <<>>
    /\ (SelectionError /\ fpc = "erased") => erase_result = "Err"
    /\ \A i, j \in DOMAIN erased :
          erased[i].offset = erased[j].offset => i = j
    /\ Range(erased) \subseteq Selected
    /\ erase_result = "Ok" => (~SelectionError /\ Range(erased) = Selected)

C25_Witness ==
    /\ fpc = "erased" /\ erase_result = "Ok"
    /\ erase_parts = Some(<<"fat1", "fat1">>)
    /\ erase_data_parts = Some(<<"Fat", "Fat">>)
    /\ Len(erased) = 2

\* chip_rev is "<major>.<minor>", both parsing as u16
WellFormedRev ==
    LET pieces == split(chip_rev, <<>>)
    IN /\ Len(pieces) = 2
       /\ parse_u16(pieces[1]) # None
       /\ parse_u16(pieces[2]) # None

RevValue ==
    LET pieces == split(chip_rev, <<>>)
    IN parse_u16(pieces[1])[2] * 100 + parse_u16(pieces[2])[2]

\* C26: parse_chip_rev returns major * 100 + minor for "<major>.<minor>"
\* with both components parsing as 16-bit unsigned integers, and a
\* ParseChipRevError for every other input; the result is within the
\* 16-bit range, never wrapped.
C26_ChipRevExact ==
    fpc = "rev_parsed" =>
        IF WellFormedRev
        THEN /\ rev_result[1] = "Ok"
             /\ rev_result[2] = RevValue
             /\ rev_result[2] <= U16Max
        ELSE rev_result = ParseChipRevError
====
